---- MODULE Spec2Model ----
(***************************************************************************)
(* LearnLynk: the row-level-security policies of rls_policies.sql over the *)
(* leads / applications / tasks schema, the create-task edge function and  *)
(* the useTodayTasks hook of the dashboard.                                *)
(*                                                                         *)
(* A policy is an operator over (jwt, row).  A table named in the FROM of  *)
(* a query that runs with the caller's privileges (a sub-SELECT inside a   *)
(* policy expression included: policy expressions run as part of the       *)
(* caller's query) ranges over the rows that table's own SELECT policy     *)
(* admits, because row security is enabled on all six tables; those scans  *)
(* are the rls_* operators.  The edge function's service-role client       *)
(* bypasses row security and scans the tables themselves.                  *)
(***************************************************************************)
EXTENDS Integers, FiniteSets, Sequences, TLC

VARIABLES
    users,            \* table users
    teams,            \* table teams
    user_teams,       \* table user_teams
    leads,            \* table leads: set of rows
    applications,     \* table applications
    tasks,            \* table tasks
    nextId,           \* ordinal of the next id gen_random_uuid() hands out
    now,              \* the clock, NOW() / new Date()
    pc,               \* create-task: where the request in flight stands
    req,              \* create-task: the request in flight
    applicationExists, \* create-task: the row the existence check returned
    newTask,          \* create-task: the row the insert returned
    resp,             \* create-task: the response sent
    published,        \* payloads broadcast on channel "tasks"
    served,           \* create-task: requests received so far
    session,          \* dashboard: the token of the signed-in user
    cache,            \* dashboard: query data under ['tasks','today']
    fetch,            \* dashboard: the fetch of that query in flight
    mutations         \* dashboard: the markComplete mutations

\* The state of the create-task edge function.
handler == <<pc, req, applicationExists, newTask, resp, published, served>>

\* The directory tables.
directory == <<users, teams, user_teams>>

\* The state of the dashboard's query client.
client == <<session, cache, fetch, mutations>>

vars == <<client, directory, leads, applications, tasks, nextId, now, handler>>

\* SQL NULL / an absent JWT claim.
NULL == "NULL"

\* Bound: how many rows the three tables ever receive together (ids are
\* never reused).
MaxRows == 3

\* ---------------------------------------------------------------------
\* Directory tables (users, teams, user_teams).  Row security is enabled on
\* them and they have SELECT policies only, so no client statement changes
\* them: they keep the rows below.
\* ---------------------------------------------------------------------
Tenants == {"T1", "T2"}

DirectoryUsers ==
    { [id |-> "a1", tenant_id |-> "T1", role |-> "admin"],
      [id |-> "c1", tenant_id |-> "T1", role |-> "counselor"],
      [id |-> "c2", tenant_id |-> "T1", role |-> "counselor"],
      [id |-> "c3", tenant_id |-> "T1", role |-> "counselor"],
      [id |-> "a2", tenant_id |-> "T2", role |-> "admin"],
      [id |-> "c4", tenant_id |-> "T2", role |-> "counselor"] }

DirectoryTeams ==
    { [id |-> "tm1", tenant_id |-> "T1"],
      [id |-> "tm2", tenant_id |-> "T1"] }

\* c1-c2 share tm1, c2-c3 share tm2, c1-c3 share nothing (one hop only);
\* c4 of tenant T2 is also a member of tm1 (no constraint ties a membership
\* to one tenant).
DirectoryUserTeams ==
    { [user_id |-> "c1", team_id |-> "tm1"],
      [user_id |-> "c2", team_id |-> "tm1"],
      [user_id |-> "c2", team_id |-> "tm2"],
      [user_id |-> "c3", team_id |-> "tm2"],
      [user_id |-> "c4", team_id |-> "tm1"] }

\* The claims of the token of a directory user: auth.jwt() ->> 'tenant_id',
\* auth.jwt() ->> 'role', auth.uid().
jwt_of(u) == [tenant_id |-> u.tenant_id, role |-> u.role, uid |-> u.id]

WellFormed == {jwt_of(u) : u \in DirectoryUsers}

\* Tokens with a missing tenant, a missing user id, or a role that is
\* neither admin nor counselor.
Malformed ==
    { [tenant_id |-> NULL, role |-> "admin",     uid |-> "a1"],
      [tenant_id |-> NULL, role |-> "counselor", uid |-> "c1"],
      [tenant_id |-> "T1", role |-> "admin",     uid |-> NULL],
      [tenant_id |-> "T1", role |-> "counselor", uid |-> NULL],
      [tenant_id |-> "T1", role |-> "guest",     uid |-> "c1"],
      [tenant_id |-> "T1", role |-> NULL,        uid |-> "c2"],
      [tenant_id |-> NULL, role |-> NULL,        uid |-> NULL] }

Principals == WellFormed \cup Malformed

\* SQL "a = b" inside a policy: NULL on either side is not true.
Eq(a, b) == a # NULL /\ b # NULL /\ a = b

\* ---------------------------------------------------------------------
\* Policies on the directory tables
\* ---------------------------------------------------------------------
users_select_policy(jwt, row) == Eq(row.tenant_id, jwt.tenant_id)

teams_select_policy(jwt, row) == Eq(row.tenant_id, jwt.tenant_id)

user_teams_select_policy(jwt, row) ==
    \/ Eq(row.user_id, jwt.uid)
    \/ Eq(jwt.role, "admin")

\* FROM user_teams in the caller's query.
rls_user_teams(jwt) == {ut \in user_teams : user_teams_select_policy(jwt, ut)}

\* same_team_exists reading user_teams past its row security.
same_team_exists_unrestricted(jwt, owner_id) ==
    \E ut1 \in user_teams, ut2 \in user_teams :
        /\ ut1.team_id = ut2.team_id
        /\ Eq(ut1.user_id, jwt.uid)
        /\ Eq(ut2.user_id, owner_id)

\* EXISTS (SELECT 1 FROM user_teams ut1 INNER JOIN user_teams ut2
\*         ON ut1.team_id = ut2.team_id
\*         WHERE ut1.user_id = auth.uid() AND ut2.user_id = <owner_id>)
same_team_exists(jwt, owner_id) ==
    \E ut1 \in rls_user_teams(jwt), ut2 \in rls_user_teams(jwt) :
        /\ ut1.team_id = ut2.team_id
        /\ Eq(ut1.user_id, jwt.uid)
        /\ Eq(ut2.user_id, owner_id)

\* ---------------------------------------------------------------------
\* Policies on leads
\* ---------------------------------------------------------------------
\* leads_select_policy with the tenant comparison left out.
leads_select_policy_any_tenant(jwt, row) ==
    \/ Eq(jwt.role, "admin")
    \/ Eq(row.owner_id, jwt.uid)
    \/ same_team_exists(jwt, row.owner_id)

leads_select_policy(jwt, row) ==
    /\ Eq(row.tenant_id, jwt.tenant_id)
    /\ \/ Eq(jwt.role, "admin")
       \/ Eq(row.owner_id, jwt.uid)
       \/ same_team_exists(jwt, row.owner_id)

leads_insert_policy(jwt, row) ==
    /\ Eq(row.tenant_id, jwt.tenant_id)
    /\ jwt.role \in {"admin", "counselor"}

\* USING of leads_update_policy (the row as it is).
leads_update_policy(jwt, row) ==
    /\ Eq(row.tenant_id, jwt.tenant_id)
    /\ \/ Eq(jwt.role, "admin")
       \/ Eq(row.owner_id, jwt.uid)
       \/ same_team_exists(jwt, row.owner_id)

\* leads_update_policy written without its WITH CHECK clause.
leads_update_check_missing(jwt, row) == TRUE

\* WITH CHECK of leads_update_policy (the row as it would become).
leads_update_check(jwt, row) == Eq(row.tenant_id, jwt.tenant_id)

\* leads_delete_policy that also lets the owner delete.
leads_delete_policy_owner(jwt, row) ==
    /\ Eq(row.tenant_id, jwt.tenant_id)
    /\ \/ Eq(jwt.role, "admin")
       \/ Eq(row.owner_id, jwt.uid)

leads_delete_policy(jwt, row) ==
    /\ Eq(row.tenant_id, jwt.tenant_id)
    /\ Eq(jwt.role, "admin")

\* FROM leads in the caller's query.
rls_leads(jwt) == {l \in leads : leads_select_policy(jwt, l)}

\* ---------------------------------------------------------------------
\* Policies on applications
\* ---------------------------------------------------------------------
applications_select_policy(jwt, row) ==
    /\ Eq(row.tenant_id, jwt.tenant_id)
    /\ \/ Eq(jwt.role, "admin")
       \/ \E l \in rls_leads(jwt) :
              /\ l.id = row.lead_id
              /\ \/ Eq(l.owner_id, jwt.uid)
                 \/ same_team_exists(jwt, l.owner_id)

applications_insert_policy(jwt, row) ==
    /\ Eq(row.tenant_id, jwt.tenant_id)
    /\ jwt.role \in {"admin", "counselor"}

\* FOR UPDATE USING; no WITH CHECK is given, so the same expression is also
\* the check on the row as it would become.
applications_modify_policy(jwt, row) ==
    /\ Eq(row.tenant_id, jwt.tenant_id)
    /\ \/ Eq(jwt.role, "admin")
       \/ \E l \in rls_leads(jwt) :
              /\ l.id = row.lead_id
              /\ Eq(l.owner_id, jwt.uid)

applications_delete_policy(jwt, row) ==
    /\ Eq(row.tenant_id, jwt.tenant_id)
    /\ Eq(jwt.role, "admin")

\* FROM applications in the caller's query.
rls_applications(jwt) == {a \in applications : applications_select_policy(jwt, a)}

\* ---------------------------------------------------------------------
\* Policies on tasks
\* ---------------------------------------------------------------------
tasks_select_policy(jwt, row) ==
    /\ Eq(row.tenant_id, jwt.tenant_id)
    /\ \/ Eq(jwt.role, "admin")
       \/ Eq(row.assigned_to, jwt.uid)
       \/ \E a \in rls_applications(jwt), l \in rls_leads(jwt) :
              /\ a.lead_id = l.id
              /\ a.id = row.application_id
              /\ \/ Eq(l.owner_id, jwt.uid)
                 \/ same_team_exists(jwt, l.owner_id)

tasks_insert_policy(jwt, row) ==
    /\ Eq(row.tenant_id, jwt.tenant_id)
    /\ jwt.role \in {"admin", "counselor"}

\* tasks_update_policy given the lead-ownership clause of tasks_select_policy.
tasks_update_policy_inherited(jwt, row) ==
    /\ Eq(row.tenant_id, jwt.tenant_id)
    /\ \/ Eq(jwt.role, "admin")
       \/ Eq(row.assigned_to, jwt.uid)
       \/ \E a \in rls_applications(jwt), l \in rls_leads(jwt) :
              /\ a.lead_id = l.id
              /\ a.id = row.application_id
              /\ Eq(l.owner_id, jwt.uid)

\* FOR UPDATE USING; also the check on the new row (no WITH CHECK given).
tasks_update_policy(jwt, row) ==
    /\ Eq(row.tenant_id, jwt.tenant_id)
    /\ \/ Eq(jwt.role, "admin")
       \/ Eq(row.assigned_to, jwt.uid)

tasks_delete_policy(jwt, row) ==
    /\ Eq(row.tenant_id, jwt.tenant_id)
    /\ Eq(jwt.role, "admin")

\* ---------------------------------------------------------------------
\* Tables: rows and constraints (schema.sql)
\* ---------------------------------------------------------------------
LeadId(n) == "L" \o ToString(n)
ApplicationId(n) == "A" \o ToString(n)
TaskId(n) == "K" \o ToString(n)

VALID_TASK_TYPES == {"call", "email", "review"}

\* CHECK (type IN (...)), CONSTRAINT due_at_after_created, and the foreign
\* key to applications (foreign keys are checked without row security).
tasks_constraints(row) ==
    /\ row.type \in VALID_TASK_TYPES
    /\ row.due_at >= row.created_at
    /\ \E a \in applications : a.id = row.application_id

\* applications.lead_id REFERENCES leads(id)
applications_constraints(row) == \E l \in leads : l.id = row.lead_id

\* ON DELETE CASCADE: leads -> applications -> tasks
cascade_applications(gone_leads) ==
    {a \in applications : a.lead_id \in {l.id : l \in gone_leads}}

cascade_tasks(gone_applications) ==
    {t \in tasks : t.application_id \in {a.id : a \in gone_applications}}

\* ---------------------------------------------------------------------
\* Inputs of the client statements
\* ---------------------------------------------------------------------
\* Tokens that send statements: every directory user, and a token whose
\* role claim is neither admin nor counselor.
Actors == WellFormed \cup {[tenant_id |-> "T1", role |-> "guest", uid |-> "c1"]}

OwnerInputs == {"c1", "c2", "c4"}
AssigneeInputs == {NULL, "c1", "c3"}
TaskStatusInputs == {"pending", "completed"}

\* ---------------------------------------------------------------------
\* Client statements (PostgREST with the caller's token, row security on).
\* A statement the policies or the constraints refuse changes nothing.
\* ---------------------------------------------------------------------
InsertLead(jwt, tenant_id, owner_id) ==
    LET row == [id |-> LeadId(nextId), tenant_id |-> tenant_id, owner_id |-> owner_id]
        ok  == leads_insert_policy(jwt, row)
    IN  /\ nextId <= MaxRows
        /\ leads' = IF ok THEN leads \cup {row} ELSE leads
        /\ nextId' = IF ok THEN nextId + 1 ELSE nextId
        /\ UNCHANGED <<client, directory, applications, tasks, now, handler>>

UpdateLead(jwt, row, tenant_id, owner_id) ==
    LET new == [row EXCEPT !.tenant_id = tenant_id, !.owner_id = owner_id]
        ok  == leads_update_policy(jwt, row) /\ leads_update_check(jwt, new)
    IN  /\ row \in leads
        /\ leads' = IF ok THEN (leads \ {row}) \cup {new} ELSE leads
        /\ UNCHANGED <<client, directory, applications, tasks, nextId, now, handler>>

DeleteLead(jwt, row) ==
    LET ok   == leads_delete_policy(jwt, row)
        apps == cascade_applications({row})
    IN  /\ row \in leads
        /\ leads' = IF ok THEN leads \ {row} ELSE leads
        /\ applications' = IF ok THEN applications \ apps ELSE applications
        /\ tasks' = IF ok THEN tasks \ cascade_tasks(apps) ELSE tasks
        /\ UNCHANGED <<client, directory, nextId, now, handler>>

InsertApplication(jwt, tenant_id, lead_id) ==
    LET row == [id |-> ApplicationId(nextId), tenant_id |-> tenant_id,
                lead_id |-> lead_id]
        ok  == applications_insert_policy(jwt, row) /\ applications_constraints(row)
    IN  /\ nextId <= MaxRows
        /\ applications' = IF ok THEN applications \cup {row} ELSE applications
        /\ nextId' = IF ok THEN nextId + 1 ELSE nextId
        /\ UNCHANGED <<client, directory, leads, tasks, now, handler>>

UpdateApplication(jwt, row, tenant_id, lead_id) ==
    LET new == [row EXCEPT !.tenant_id = tenant_id, !.lead_id = lead_id]
        ok  == /\ applications_modify_policy(jwt, row)
               /\ applications_modify_policy(jwt, new)
               /\ applications_constraints(new)
    IN  /\ row \in applications
        /\ applications' = IF ok THEN (applications \ {row}) \cup {new} ELSE applications
        /\ UNCHANGED <<client, directory, leads, tasks, nextId, now, handler>>

DeleteApplication(jwt, row) ==
    LET ok == applications_delete_policy(jwt, row)
    IN  /\ row \in applications
        /\ applications' = IF ok THEN applications \ {row} ELSE applications
        /\ tasks' = IF ok THEN tasks \ cascade_tasks({row}) ELSE tasks
        /\ UNCHANGED <<client, directory, leads, nextId, now, handler>>

InsertTask(jwt, tenant_id, application_id, assigned_to) ==
    LET row == [id |-> TaskId(nextId), tenant_id |-> tenant_id,
                application_id |-> application_id, type |-> "call",
                title |-> "Call task", description |-> NULL,
                assigned_to |-> assigned_to, status |-> "pending",
                due_at |-> now, created_at |-> now, updated_at |-> now]
        ok  == tasks_insert_policy(jwt, row) /\ tasks_constraints(row)
    IN  /\ nextId <= MaxRows
        /\ tasks' = IF ok THEN tasks \cup {row} ELSE tasks
        /\ nextId' = IF ok THEN nextId + 1 ELSE nextId
        /\ UNCHANGED <<client, directory, leads, applications, now, handler>>

\* BEFORE UPDATE trigger set_updated_at_tasks: NEW.updated_at = NOW()
trigger_set_updated_at(row) == [row EXCEPT !.updated_at = now]

UpdateTask(jwt, row, tenant_id, assigned_to, status) ==
    LET new == trigger_set_updated_at(
                   [row EXCEPT !.tenant_id = tenant_id, !.assigned_to = assigned_to,
                               !.status = status])
        ok  == tasks_update_policy(jwt, row) /\ tasks_update_policy(jwt, new)
    IN  /\ row \in tasks
        /\ tasks' = IF ok THEN (tasks \ {row}) \cup {new} ELSE tasks
        /\ UNCHANGED <<client, directory, leads, applications, nextId, now, handler>>

DeleteTask(jwt, row) ==
    LET ok == tasks_delete_policy(jwt, row)
    IN  /\ row \in tasks
        /\ tasks' = IF ok THEN tasks \ {row} ELSE tasks
        /\ UNCHANGED <<client, directory, leads, applications, nextId, now, handler>>

\* ---------------------------------------------------------------------
\* The create-task edge function (backend/index.ts)
\* ---------------------------------------------------------------------
\* Bounds of the create-task runs: the clock's last tick, requests served.
MaxTime == 2
MaxRequests == 1

\* A JSON number in the body (truthy, typeof "number").
JsonNumber == "42:number"

\* !v
Falsy(v) == v \in {NULL, ""}

\* typeof v === "string"
IsString(v) == v \notin {NULL, JsonNumber}

\* An ISO 8601 timestamp of instant n, and new Date(v).getTime() (NaN = -1).
Iso(n) == "2030-01-01T00:00:0" \o ToString(n) \o "Z"
NaN == 0 - 1
ParseDate(v) ==
    IF \E n \in 0..(MaxTime + 1) : v = Iso(n)
    THEN CHOOSE n \in 0..(MaxTime + 1) : v = Iso(n)
    ELSE NaN

\* task_type.charAt(0).toUpperCase() + task_type.slice(1)
Capitalize(task_type) ==
    CASE task_type = "call"   -> "Call"
      [] task_type = "email"  -> "Email"
      [] task_type = "review" -> "Review"
      [] OTHER                -> task_type

Response(status, success, error, task_id) ==
    [status |-> status, success |-> success, error |-> error, task_id |-> task_id]

NoResponse == Response(0, FALSE, NULL, NULL)
NoRow == [id |-> NULL, tenant_id |-> NULL]
NoRequest ==
    [caller |-> [tenant_id |-> NULL, role |-> NULL, uid |-> NULL], method |-> NULL,
     application_id |-> NULL, task_type |-> NULL, due_at |-> NULL, title |-> NULL,
     assigned_to |-> NULL, tenant_id |-> NULL, status |-> NULL, body |-> NULL]

\* Validate with the enum check of task_type moved before the presence
\* check of due_at.
Validate_enum_first(r, json_ok, env_ok) ==
    IF r.method = "OPTIONS" THEN Response(200, TRUE, NULL, NULL)
    ELSE IF r.method # "POST" THEN Response(405, FALSE, "Method not allowed. Use POST.", NULL)
    ELSE IF ~json_ok THEN Response(400, FALSE, "Invalid JSON in request body", NULL)
    ELSE IF r.body = "null" THEN Response(500, FALSE, "Internal server error", NULL)
    ELSE IF Falsy(r.application_id) \/ ~IsString(r.application_id)
        THEN Response(400, FALSE,
                 "application_id is required and must be a valid UUID string", NULL)
    ELSE IF Falsy(r.task_type) THEN Response(400, FALSE, "task_type is required", NULL)
    ELSE IF r.task_type \notin VALID_TASK_TYPES
        THEN Response(400, FALSE, "task_type must be one of: call, email, review", NULL)
    ELSE IF Falsy(r.due_at) THEN Response(400, FALSE, "due_at is required", NULL)
    ELSE IF ParseDate(r.due_at) = NaN
        THEN Response(400, FALSE,
                 "due_at must be a valid ISO 8601 timestamp (e.g., 2025-01-01T12:00:00Z)",
                 NULL)
    ELSE IF ParseDate(r.due_at) <= now
        THEN Response(400, FALSE, "due_at must be a future timestamp", NULL)
    ELSE IF ~env_ok THEN Response(500, FALSE, "Internal server configuration error", NULL)
    ELSE NoResponse

\* Lines 47-207: everything the handler decides before its first query.
\* The result is the response to send, or NoResponse to go on.  A body that
\* is the JSON value null parses, and destructuring it at line 86 throws a
\* TypeError that the handler's outer catch (lines 310-327) answers.
Validate(r, json_ok, env_ok) ==
    IF r.method = "OPTIONS" THEN Response(200, TRUE, NULL, NULL)
    ELSE IF r.method # "POST" THEN Response(405, FALSE, "Method not allowed. Use POST.", NULL)
    ELSE IF ~json_ok THEN Response(400, FALSE, "Invalid JSON in request body", NULL)
    ELSE IF r.body = "null" THEN Response(500, FALSE, "Internal server error", NULL)
    ELSE IF Falsy(r.application_id) \/ ~IsString(r.application_id)
        THEN Response(400, FALSE,
                 "application_id is required and must be a valid UUID string", NULL)
    ELSE IF Falsy(r.task_type) THEN Response(400, FALSE, "task_type is required", NULL)
    ELSE IF Falsy(r.due_at) THEN Response(400, FALSE, "due_at is required", NULL)
    ELSE IF r.task_type \notin VALID_TASK_TYPES
        THEN Response(400, FALSE, "task_type must be one of: call, email, review", NULL)
    ELSE IF ParseDate(r.due_at) = NaN
        THEN Response(400, FALSE,
                 "due_at must be a valid ISO 8601 timestamp (e.g., 2025-01-01T12:00:00Z)",
                 NULL)
    ELSE IF ParseDate(r.due_at) <= now
        THEN Response(400, FALSE, "due_at must be a future timestamp", NULL)
    ELSE IF ~env_ok THEN Response(500, FALSE, "Internal server configuration error", NULL)
    ELSE NoResponse

\* Request with the application looked up as soon as the body is read,
\* before the fields are validated.
Request_lookup_first(r, json_ok, env_ok) ==
    LET out  == Validate(r, json_ok, env_ok)
        rows == {a \in applications : a.id = r.application_id}
    IN  /\ pc \in {"idle", "done"}
        /\ served < MaxRequests
        /\ served' = served + 1
        /\ req' = r
        /\ applicationExists' =
               IF rows = {} THEN NoRow
               ELSE LET a == CHOOSE a \in rows : TRUE
                    IN  [id |-> a.id, tenant_id |-> a.tenant_id]
        /\ newTask' = NoRow
        /\ resp' = IF rows = {} /\ r.method = "POST" /\ json_ok
                   THEN Response(404, FALSE, "Application not found", NULL) ELSE out
        /\ pc' = IF out = NoResponse /\ rows # {} THEN "check" ELSE "done"
        /\ UNCHANGED <<client, directory, leads, applications, tasks, nextId, now, published>>

\* serve(): a request arrives and runs up to the existence check.
Request(r, json_ok, env_ok) ==
    LET out == Validate(r, json_ok, env_ok)
    IN  /\ pc \in {"idle", "done"}
        /\ served < MaxRequests
        /\ served' = served + 1
        /\ req' = r
        /\ applicationExists' = NoRow
        /\ newTask' = NoRow
        /\ resp' = out
        /\ pc' = IF out = NoResponse THEN "check" ELSE "done"
        /\ UNCHANGED <<client, directory, leads, applications, tasks, nextId, now, published>>

\* VerifyApplicationExists with its result ignored: the handler goes on to
\* the insert whether or not a row was found.
VerifyApplicationExists_unchecked(query_fails) ==
    LET rows == {a \in applications : a.id = req.application_id}
        miss == query_fails \/ rows = {}
    IN  /\ pc = "check"
        /\ applicationExists' =
               IF miss THEN NoRow
               ELSE LET a == CHOOSE a \in rows : TRUE
                    IN  [id |-> a.id, tenant_id |-> a.tenant_id]
        /\ pc' = "insert"
        /\ UNCHANGED <<client, directory, leads, applications, tasks, nextId, now, req, newTask,
                       resp, published, served>>

\* Lines 220-237: .from("applications").select("id, tenant_id").eq("id", ...)
\* .single() with the service-role client: no row security; checkError when
\* the query fails or no row matches.
VerifyApplicationExists(query_fails) ==
    LET rows == {a \in applications : a.id = req.application_id}
        miss == query_fails \/ rows = {}
    IN  /\ pc = "check"
        /\ applicationExists' =
               IF miss THEN NoRow
               ELSE LET a == CHOOSE a \in rows : TRUE
                    IN  [id |-> a.id, tenant_id |-> a.tenant_id]
        /\ resp' = IF miss THEN Response(404, FALSE, "Application not found", NULL)
                   ELSE resp
        /\ pc' = IF miss THEN "done" ELSE "insert"
        /\ UNCHANGED <<client, directory, leads, applications, tasks, nextId, now, req, newTask,
                       published, served>>

\* InsertTaskRow taking tenant_id and status from the request body when the
\* body carries them.
InsertTaskRow_from_payload(query_fails) ==
    LET row == [id |-> TaskId(nextId),
                tenant_id |-> IF Falsy(req.tenant_id) THEN applicationExists.tenant_id
                              ELSE req.tenant_id,
                application_id |-> req.application_id, type |-> req.task_type,
                title |-> IF Falsy(req.title)
                          THEN Capitalize(req.task_type) \o " task" ELSE req.title,
                description |-> NULL,
                assigned_to |-> IF Falsy(req.assigned_to) THEN NULL ELSE req.assigned_to,
                status |-> IF Falsy(req.status) THEN "pending" ELSE req.status,
                due_at |-> ParseDate(Iso(ParseDate(req.due_at))),
                created_at |-> now, updated_at |-> now]
        ok  == ~query_fails /\ tasks_constraints(row)
    IN  /\ pc = "insert"
        /\ tasks' = IF ok THEN tasks \cup {row} ELSE tasks
        /\ nextId' = IF ok THEN nextId + 1 ELSE nextId
        /\ newTask' = IF ok THEN [id |-> row.id, tenant_id |-> row.tenant_id] ELSE NoRow
        /\ resp' = IF ok THEN resp
                   ELSE Response(500, FALSE, "Failed to create task", NULL)
        /\ pc' = IF ok THEN "broadcast" ELSE "done"
        /\ UNCHANGED <<client, directory, leads, applications, now, req, applicationExists,
                       published, served>>

\* InsertTaskRow whose failure still hands the would-be row's id on to the
\* notification and the response.
InsertTaskRow_partial(query_fails) ==
    LET row == [id |-> TaskId(nextId), tenant_id |-> applicationExists.tenant_id,
                application_id |-> req.application_id, type |-> req.task_type,
                title |-> IF Falsy(req.title)
                          THEN Capitalize(req.task_type) \o " task" ELSE req.title,
                description |-> NULL,
                assigned_to |-> IF Falsy(req.assigned_to) THEN NULL ELSE req.assigned_to,
                status |-> "pending",
                due_at |-> ParseDate(Iso(ParseDate(req.due_at))),
                created_at |-> now, updated_at |-> now]
        ok  == ~query_fails /\ tasks_constraints(row)
    IN  /\ pc = "insert"
        /\ tasks' = IF ok THEN tasks \cup {row} ELSE tasks
        /\ nextId' = IF ok THEN nextId + 1 ELSE nextId
        /\ newTask' = [id |-> row.id, tenant_id |-> row.tenant_id]
        /\ resp' = resp
        /\ pc' = "broadcast"
        /\ UNCHANGED <<client, directory, leads, applications, now, req, applicationExists,
                       published, served>>

\* Lines 242-269: the insert, again with the service-role client.
InsertTaskRow(query_fails) ==
    LET row == [id |-> TaskId(nextId), tenant_id |-> applicationExists.tenant_id,
                application_id |-> req.application_id, type |-> req.task_type,
                title |-> IF Falsy(req.title)
                          THEN Capitalize(req.task_type) \o " task" ELSE req.title,
                description |-> NULL,
                assigned_to |-> IF Falsy(req.assigned_to) THEN NULL ELSE req.assigned_to,
                status |-> "pending",
                due_at |-> ParseDate(Iso(ParseDate(req.due_at))),
                created_at |-> now, updated_at |-> now]
        ok  == ~query_fails /\ tasks_constraints(row)
    IN  /\ pc = "insert"
        /\ tasks' = IF ok THEN tasks \cup {row} ELSE tasks
        /\ nextId' = IF ok THEN nextId + 1 ELSE nextId
        /\ newTask' = IF ok THEN [id |-> row.id, tenant_id |-> row.tenant_id] ELSE NoRow
        /\ resp' = IF ok THEN resp
                   ELSE Response(500, FALSE, "Failed to create task", NULL)
        /\ pc' = IF ok THEN "broadcast" ELSE "done"
        /\ UNCHANGED <<client, directory, leads, applications, now, req, applicationExists,
                       published, served>>

\* EmitAndRespond with a failure of the channel surfaced to the caller.
EmitAndRespond_surfaced(send_throws, remove_throws) ==
    LET payload == [task_id |-> newTask.id, application_id |-> req.application_id,
                    type |-> req.task_type, due_at |-> Iso(ParseDate(req.due_at))]
    IN  /\ pc = "broadcast"
        /\ published' = IF send_throws THEN published ELSE published \cup {payload}
        /\ resp' = IF send_throws \/ remove_throws
                   THEN Response(500, FALSE, "Internal server error", NULL)
                   ELSE Response(200, TRUE, NULL, newTask.id)
        /\ pc' = "done"
        /\ UNCHANGED <<client, directory, leads, applications, tasks, nextId, now, req,
                       applicationExists,
                       newTask, served>>

\* Lines 275-308: channel.send, removeChannel, then the success response.
\* send_throws: channel.send rejects; remove_throws: removeChannel rejects
\* after a send that went out.  Either is caught and logged.
EmitAndRespond(send_throws, remove_throws) ==
    LET payload == [task_id |-> newTask.id, application_id |-> req.application_id,
                    type |-> req.task_type, due_at |-> Iso(ParseDate(req.due_at))]
    IN  /\ pc = "broadcast"
        /\ published' = IF send_throws THEN published ELSE published \cup {payload}
        /\ resp' = Response(200, TRUE, NULL, newTask.id)
        /\ pc' = "done"
        /\ UNCHANGED <<client, directory, leads, applications, tasks, nextId, now, req,
                       applicationExists,
                       newTask, served>>

\* Time passes between the handler's steps.
Tick ==
    /\ now < MaxTime
    /\ now' = now + 1
    /\ UNCHANGED <<client, directory, leads, applications, tasks, nextId, handler>>

\* ---------------------------------------------------------------------
\* The dashboard's hook (frontend/src/hooks/useTodayTasks.ts, lines 1-75)
\* ---------------------------------------------------------------------
\* Bound of the dashboard runs: markComplete mutations in flight at once.
MaxMutations == 2

\* today.setHours(0, 0, 0, 0) and today.setHours(23, 59, 59, 999): the
\* clock's run lies within one day, and MaxTime + 1 is tomorrow.
StartOfDay == 0
EndOfDay == MaxTime

\* Query data that is undefined: no list, as against the empty list.
undefined == <<NULL>>

\* No user is signed in.
NoSession == [tenant_id |-> NULL, role |-> NULL, uid |-> NULL]

NoFetch == [state |-> "idle", data |-> undefined]
NoMutation == [taskId |-> NULL, state |-> "idle", previousTasks |-> undefined]

\* .order('due_at', { ascending: true }): the ids of the rows by due_at.
RECURSIVE OrderByDueAt(_)
OrderByDueAt(rows) ==
    IF rows = {} THEN <<>>
    ELSE LET t == CHOOSE t \in rows : \A u \in rows : t.due_at <= u.due_at
         IN  <<t.id>> \o OrderByDueAt(rows \ {t})

\* The select of queryFn, run with the session's token: the tasks the
\* session may read that are due today and not completed.
TodayTasks(jwt) ==
    OrderByDueAt({t \in tasks : /\ tasks_select_policy(jwt, t)
                                /\ t.due_at >= StartOfDay
                                /\ t.due_at <= EndOfDay
                                /\ t.status # "completed"})

\* old?.filter((task) => task.id !== taskId)
FilterOut(old, taskId) ==
    IF old = undefined THEN undefined ELSE SelectSeq(old, LAMBDA id : id # taskId)

\* queryClient.setQueryData(key, data): undefined data leaves the cache alone.
SetQueryData(data) == IF data = undefined THEN cache ELSE data

\* A fetch of the query starts: on mount, and every refetchInterval.
Refetch ==
    /\ session # NoSession
    /\ fetch.state = "idle"
    /\ fetch' = [state |-> "sent", data |-> undefined]
    /\ UNCHANGED <<session, cache, mutations, directory, leads, applications, tasks,
                   nextId, now, handler>>

\* The store answers the select of queryFn.
queryFn ==
    /\ fetch.state = "sent"
    /\ fetch' = [state |-> "read", data |-> TodayTasks(session)]
    /\ UNCHANGED <<session, cache, mutations, directory, leads, applications, tasks,
                   nextId, now, handler>>

\* The answer arrives and becomes the query data.
FetchSuccess ==
    /\ fetch.state = "read"
    /\ cache' = fetch.data
    /\ fetch' = NoFetch
    /\ UNCHANGED <<session, mutations, directory, leads, applications, tasks,
                   nextId, now, handler>>

\* markComplete(taskId) and its onMutate: the fetch in flight is cancelled,
\* the cached list is snapshotted and the task filtered out of it.
onMutate(i, taskId) ==
    /\ session # NoSession
    /\ mutations[i].state = "idle"
    /\ fetch' = NoFetch
    /\ cache' = SetQueryData(FilterOut(cache, taskId))
    /\ mutations' = [mutations EXCEPT ![i] =
           [taskId |-> taskId, state |-> "pending", previousTasks |-> cache]]
    /\ UNCHANGED <<session, directory, leads, applications, tasks, nextId, now, handler>>

\* mutationFn answering an error for a task that is already completed.
mutationFn_once(i, fails) ==
    LET rows == {t \in tasks : t.id = mutations[i].taskId /\ tasks_update_policy(session, t)}
        new(t) == trigger_set_updated_at([t EXCEPT !.status = "completed", !.updated_at = now])
        error == fails \/ \E t \in rows : t.status = "completed"
    IN  /\ mutations[i].state = "pending"
        /\ tasks' = IF error THEN tasks ELSE (tasks \ rows) \cup {new(t) : t \in rows}
        /\ mutations' = [mutations EXCEPT ![i].state = IF error THEN "error" ELSE "success"]
        /\ UNCHANGED <<session, cache, fetch, directory, leads, applications, nextId, now,
                       handler>>

\* mutationFn: UPDATE tasks SET status = 'completed', updated_at = ... WHERE
\* id = taskId, with the session's token; the rows are those the update
\* policy admits, and matching none is no error.  fails: the request fails.
mutationFn(i, fails) ==
    LET rows == {t \in tasks : t.id = mutations[i].taskId /\ tasks_update_policy(session, t)}
        new(t) == trigger_set_updated_at([t EXCEPT !.status = "completed", !.updated_at = now])
        check == \A t \in rows : tasks_update_policy(session, new(t))
        error == fails \/ ~check
    IN  /\ mutations[i].state = "pending"
        /\ tasks' = IF error THEN tasks ELSE (tasks \ rows) \cup {new(t) : t \in rows}
        /\ mutations' = [mutations EXCEPT ![i].state = IF error THEN "error" ELSE "success"]
        /\ UNCHANGED <<session, cache, fetch, directory, leads, applications, nextId, now,
                       handler>>

\* queryClient.invalidateQueries: the fetch in flight is dropped and a new
\* one starts.
invalidateQueries == fetch' = [state |-> "sent", data |-> undefined]

\* onError, then onSettled: the snapshot is put back and the query
\* invalidated.
onError(i) ==
    /\ mutations[i].state = "error"
    /\ cache' = SetQueryData(mutations[i].previousTasks)
    /\ invalidateQueries
    /\ mutations' = [mutations EXCEPT ![i] = NoMutation]
    /\ UNCHANGED <<session, directory, leads, applications, tasks, nextId, now, handler>>

\* onSettled of a mutation that succeeded.
onSettled(i) ==
    /\ mutations[i].state = "success"
    /\ invalidateQueries
    /\ mutations' = [mutations EXCEPT ![i] = NoMutation]
    /\ UNCHANGED <<session, cache, directory, leads, applications, tasks, nextId, now,
                   handler>>

\* ---------------------------------------------------------------------
\* Specification of the client statements under row security
\* ---------------------------------------------------------------------
InitDirectory ==
    /\ users = DirectoryUsers
    /\ teams = DirectoryTeams
    /\ user_teams = DirectoryUserTeams

InitHandler ==
    /\ pc = "idle"
    /\ req = NoRequest
    /\ applicationExists = NoRow
    /\ newTask = NoRow
    /\ resp = NoResponse
    /\ published = {}
    /\ served = 0

\* No dashboard is open.
InitClient ==
    /\ session = NoSession
    /\ cache = undefined
    /\ fetch = NoFetch
    /\ mutations = [i \in 1..MaxMutations |-> NoMutation]

Init ==
    /\ InitClient
    /\ InitDirectory
    /\ leads = {}
    /\ applications = {}
    /\ tasks = {}
    /\ nextId = 1
    /\ now = 0
    /\ InitHandler

\* Any one statement sent with the token jwt.
ClientStatement(jwt) ==
    \/ \E t \in Tenants, o \in OwnerInputs : InsertLead(jwt, t, o)
    \/ \E r \in leads, t \in Tenants, o \in OwnerInputs : UpdateLead(jwt, r, t, o)
    \/ \E r \in leads : DeleteLead(jwt, r)
    \/ \E t \in Tenants, n \in 1..MaxRows : InsertApplication(jwt, t, LeadId(n))
    \/ \E r \in applications, t \in Tenants, n \in 1..MaxRows :
           UpdateApplication(jwt, r, t, LeadId(n))
    \/ \E r \in applications : DeleteApplication(jwt, r)
    \/ \E t \in Tenants, n \in 1..MaxRows, a \in AssigneeInputs :
           InsertTask(jwt, t, ApplicationId(n), a)
    \/ \E r \in tasks, t \in Tenants, a \in AssigneeInputs, s \in TaskStatusInputs :
           UpdateTask(jwt, r, t, a, s)
    \/ \E r \in tasks : DeleteTask(jwt, r)

Next == \E jwt \in Actors : ClientStatement(jwt)

Spec == Init /\ [][Next]_vars

\* ---------------------------------------------------------------------
\* Specification of the create-task edge function over a seeded store
\* ---------------------------------------------------------------------
CallerInputs ==
    { jwt_of([id |-> "c1", tenant_id |-> "T1", role |-> "counselor"]),
      jwt_of([id |-> "c4", tenant_id |-> "T2", role |-> "counselor"]) }

\* The optional body fields, and a tenant_id and a status the body may
\* smuggle in.
OptionalInputs ==
    { [title |-> NULL, assigned_to |-> NULL, tenant_id |-> NULL, status |-> NULL],
      [title |-> "Ring back", assigned_to |-> "c3", tenant_id |-> "T2",
       status |-> "completed"] }

PostInputs ==
    { [caller |-> c, method |-> "POST", application_id |-> a, task_type |-> t,
       due_at |-> d, title |-> o.title, assigned_to |-> o.assigned_to,
       tenant_id |-> o.tenant_id, status |-> o.status, body |-> "object"] :
        c \in CallerInputs,
        a \in {NULL, JsonNumber, ApplicationId(3), ApplicationId(4), ApplicationId(9)},
        t \in {NULL, "call", "meeting"},
        d \in {NULL, "tomorrow"} \cup {Iso(n) : n \in 1..MaxTime},
        o \in OptionalInputs }

RequestInputs ==
    PostInputs \cup {[NoRequest EXCEPT !.method = m] : m \in {"OPTIONS", "GET"}}
        \cup {[NoRequest EXCEPT !.method = "POST", !.body = "null"]}

InitCreateTask ==
    /\ InitClient
    /\ InitDirectory
    /\ leads = { [id |-> LeadId(1), tenant_id |-> "T1", owner_id |-> "c1"],
                 [id |-> LeadId(2), tenant_id |-> "T2", owner_id |-> "c4"] }
    /\ applications =
           { [id |-> ApplicationId(3), tenant_id |-> "T1", lead_id |-> LeadId(1)],
             [id |-> ApplicationId(4), tenant_id |-> "T2", lead_id |-> LeadId(2)] }
    /\ tasks = {}
    /\ nextId = 5
    /\ now = 0
    /\ InitHandler

NextCreateTask ==
    \/ \E r \in RequestInputs, json_ok \in BOOLEAN, env_ok \in BOOLEAN :
           Request(r, json_ok, env_ok)
    \/ \E query_fails \in BOOLEAN : VerifyApplicationExists(query_fails)
    \/ \E query_fails \in BOOLEAN : InsertTaskRow(query_fails)
    \/ \E send_throws \in BOOLEAN, remove_throws \in BOOLEAN :
           EmitAndRespond(send_throws, remove_throws)
    \/ Tick
    \/ \E jwt \in Actors, r \in applications : DeleteApplication(jwt, r)

SpecCreateTask == InitCreateTask /\ [][NextCreateTask]_vars

\* ---------------------------------------------------------------------
\* Specification of the dashboard over a seeded store
\* ---------------------------------------------------------------------
SessionInputs == {jwt \in WellFormed : jwt.uid \in {"c1", "a1"}}

\* A task row of tenant T1 under the application A2.
SeedTask(n, assigned_to, due_at) ==
    [id |-> TaskId(n), tenant_id |-> "T1", application_id |-> ApplicationId(2),
     type |-> "call", title |-> "Call task", description |-> NULL,
     assigned_to |-> assigned_to, status |-> "pending", due_at |-> due_at,
     created_at |-> 0, updated_at |-> 0]

\* The dashboard of c1 or a1 mounts over a lead owned by c1 whose application
\* has two tasks due today (one assigned to c1, one to c3) and one due
\* tomorrow.
InitTodayTasks ==
    /\ session \in SessionInputs
    /\ cache = undefined
    /\ fetch = [state |-> "sent", data |-> undefined]
    /\ mutations = [i \in 1..MaxMutations |-> NoMutation]
    /\ InitDirectory
    /\ leads = { [id |-> LeadId(1), tenant_id |-> "T1", owner_id |-> "c1"] }
    /\ applications = { [id |-> ApplicationId(2), tenant_id |-> "T1", lead_id |-> LeadId(1)] }
    /\ tasks = { SeedTask(3, "c1", 1), SeedTask(4, "c3", 2), SeedTask(5, "c1", MaxTime + 1) }
    /\ nextId = 6
    /\ now = 0
    /\ InitHandler

\* The ids of a list of query data.
Ids(data) == IF data = undefined THEN {} ELSE {data[k] : k \in 1..Len(data)}

\* The tasks whose "Mark complete" button can be pressed: those listed, and
\* those a mutation in flight has just taken off the list.
Listed ==
    Ids(cache) \cup UNION {Ids(mutations[i].previousTasks) : i \in 1..MaxMutations}

NextTodayTasks ==
    \/ Refetch
    \/ queryFn
    \/ FetchSuccess
    \/ \E i \in 1..MaxMutations, taskId \in Listed : onMutate(i, taskId)
    \/ \E i \in 1..MaxMutations, fails \in BOOLEAN : mutationFn(i, fails)
    \/ \E i \in 1..MaxMutations : onError(i)
    \/ \E i \in 1..MaxMutations : onSettled(i)
    \/ Tick

SpecTodayTasks == InitTodayTasks /\ [][NextTodayTasks]_vars

\* =====================================================================
\* Properties
\* =====================================================================
AdminTokens == {jwt \in WellFormed : jwt.role = "admin"}
CounselorTokens == {jwt \in WellFormed : jwt.role = "counselor"}
Token(uid) == CHOOSE jwt \in WellFormed : jwt.uid = uid

\* Two users share at least one team: their sets of team ids intersect.
TeamsOf(uid) == {ut.team_id : ut \in {m \in user_teams : m.user_id = uid}}
Teammates(u, v) == TeamsOf(u) \cap TeamsOf(v) # {}

ParentLeads(app) == {l \in leads : l.id = app.lead_id}
ParentApplications(task) == {a \in applications : a.id = task.application_id}

\* C1: a principal of one tenant is denied select, insert, update and
\* delete on every lead, application and task row of another tenant,
\* whatever the row's owner, assignee or the team memberships.
C1_TenantIsolation ==
    \A jwt \in Principals :
        /\ \A l \in leads :
               l.tenant_id # jwt.tenant_id =>
                   /\ ~leads_select_policy(jwt, l)
                   /\ ~leads_insert_policy(jwt, l)
                   /\ ~leads_update_policy(jwt, l)
                   /\ ~leads_update_check(jwt, l)
                   /\ ~leads_delete_policy(jwt, l)
        /\ \A a \in applications :
               a.tenant_id # jwt.tenant_id =>
                   /\ ~applications_select_policy(jwt, a)
                   /\ ~applications_insert_policy(jwt, a)
                   /\ ~applications_modify_policy(jwt, a)
                   /\ ~applications_delete_policy(jwt, a)
        /\ \A t \in tasks :
               t.tenant_id # jwt.tenant_id =>
                   /\ ~tasks_select_policy(jwt, t)
                   /\ ~tasks_insert_policy(jwt, t)
                   /\ ~tasks_update_policy(jwt, t)
                   /\ ~tasks_delete_policy(jwt, t)

\* A T1 lead owned by c4 (a T2 counselor on team tm1), with a T2 application
\* and a T2 task assigned to c3 (a T1 counselor): owner and assignee are both
\* turned away by the tenant comparison.
C1_Witness ==
    \E l \in leads, a \in applications, t \in tasks :
        /\ l.tenant_id = "T1" /\ l.owner_id = "c4"
        /\ a.lead_id = l.id /\ a.tenant_id = "T2"
        /\ t.application_id = a.id /\ t.tenant_id = "T2" /\ t.assigned_to = "c3"
        /\ ~leads_select_policy(Token("c4"), l)
        /\ ~tasks_select_policy(Token("c3"), t)
        /\ ~tasks_update_policy(Token("c3"), t)
        /\ leads_select_policy(Token("a1"), l)

\* C2: every application the create-task handler has read, and every task
\* it has inserted, is one the row policies allow to the request's caller.
C2_HandlerUnderPolicies ==
    /\ \A a \in applications :
           a.id = applicationExists.id => applications_select_policy(req.caller, a)
    /\ \A t \in tasks :
           t.id = newTask.id => tasks_insert_policy(req.caller, t)

\* C3: a counselor may read a lead of their tenant exactly when they own it
\* or share a team with its owner.
C3_CounselorLeadRead ==
    \A jwt \in CounselorTokens, l \in leads :
        l.tenant_id = jwt.tenant_id =>
            (leads_select_policy(jwt, l)
                 <=> (l.owner_id = jwt.uid \/ Teammates(jwt.uid, l.owner_id)))

\* C4: a counselor may update a task of their tenant exactly when it is
\* assigned to them; owning the parent lead or being a teammate of its owner
\* gives no right to update.
C4_CounselorTaskUpdate ==
    \A jwt \in CounselorTokens, t \in tasks :
        t.tenant_id = jwt.tenant_id =>
            (tasks_update_policy(jwt, t) <=> t.assigned_to = jwt.uid)

\* A completed task assigned to c3 under a lead owned by c1: c3 may update it,
\* the lead's owner c1 and the owner's teammate c2 may not.
C4_Witness ==
    \E l \in leads, a \in applications, t \in tasks :
        /\ l.tenant_id = "T1" /\ l.owner_id = "c1"
        /\ a.lead_id = l.id /\ a.tenant_id = "T1"
        /\ t.application_id = a.id /\ t.tenant_id = "T1"
        /\ t.assigned_to = "c3" /\ t.status = "completed"
        /\ tasks_update_policy(Token("c3"), t)
        /\ ~tasks_update_policy(Token("c1"), t)
        /\ ~tasks_update_policy(Token("c2"), t)

\* C5: a counselor may update an application of their tenant exactly when
\* they own its parent lead; a counselor who is only a teammate of the owner
\* can read the application and cannot update it.
C5_CounselorApplicationUpdate ==
    \A jwt \in CounselorTokens, a \in applications :
        a.tenant_id = jwt.tenant_id =>
            /\ applications_modify_policy(jwt, a)
                   <=> (\E l \in ParentLeads(a) : l.owner_id = jwt.uid)
            /\ \A l \in ParentLeads(a) :
                   (l.owner_id # jwt.uid /\ Teammates(jwt.uid, l.owner_id)) =>
                       (applications_select_policy(jwt, a)
                            /\ ~applications_modify_policy(jwt, a))

\* C6: a counselor may read a task of their tenant exactly when it is
\* assigned to them, or they own the parent lead of its application or share
\* a team with that lead's owner.
C6_CounselorTaskRead ==
    \A jwt \in CounselorTokens, t \in tasks :
        t.tenant_id = jwt.tenant_id =>
            (tasks_select_policy(jwt, t)
                 <=> \/ t.assigned_to = jwt.uid
                     \/ \E a \in ParentApplications(t) : \E l \in ParentLeads(a) :
                            l.owner_id = jwt.uid \/ Teammates(jwt.uid, l.owner_id))

RowsRemoved ==
    \/ \E l \in leads : \A m \in leads' : m.id # l.id
    \/ \E a \in applications : \A m \in applications' : m.id # a.id
    \/ \E t \in tasks : \A m \in tasks' : m.id # t.id

\* C7: the delete policies allow an admin of the row's tenant and never a
\* counselor, owner or assignee included; and no step that removes a lead,
\* an application or a task is a statement sent by a counselor.
C7_DeleteAdminOnly ==
    /\ [](\A l \in leads, a \in applications, t \in tasks :
              /\ \A jwt \in AdminTokens :
                     /\ l.tenant_id = jwt.tenant_id => leads_delete_policy(jwt, l)
                     /\ a.tenant_id = jwt.tenant_id => applications_delete_policy(jwt, a)
                     /\ t.tenant_id = jwt.tenant_id => tasks_delete_policy(jwt, t)
              /\ \A jwt \in CounselorTokens :
                     /\ ~leads_delete_policy(jwt, l)
                     /\ ~applications_delete_policy(jwt, a)
                     /\ ~tasks_delete_policy(jwt, t))
    /\ [][RowsRemoved => ~(\E jwt \in CounselorTokens : ClientStatement(jwt))]_vars

\* A lead owned by c1 with an application and a task assigned to c1: c1 may
\* delete none of the three, the tenant's admin each of them.
C7_Witness ==
    \E l \in leads, a \in applications, t \in tasks :
        /\ l.tenant_id = "T1" /\ l.owner_id = "c1"
        /\ a.lead_id = l.id /\ a.tenant_id = "T1"
        /\ t.application_id = a.id /\ t.tenant_id = "T1" /\ t.assigned_to = "c1"
        /\ ~leads_delete_policy(Token("c1"), l)
        /\ ~applications_delete_policy(Token("c1"), a)
        /\ ~tasks_delete_policy(Token("c1"), t)
        /\ leads_delete_policy(Token("a1"), l)
        /\ applications_delete_policy(Token("a1"), a)
        /\ tasks_delete_policy(Token("a1"), t)

\* C8: an update of a lead to a tenant other than the acting principal's is
\* refused, and the tenant_id of a lead never changes.
C8_LeadTenantFixed ==
    /\ [](\A jwt \in Principals, l \in leads, t \in Tenants :
              t # jwt.tenant_id =>
                  ~(leads_update_policy(jwt, l)
                        /\ leads_update_check(jwt, [l EXCEPT !.tenant_id = t])))
    /\ [][\A l \in leads : \A m \in leads' :
              m.id = l.id => m.tenant_id = l.tenant_id]_vars

\* A T1 lead the admin a1 may update, and whose move to T2 a1 is refused.
C8_Witness ==
    \E l \in leads :
        /\ l.tenant_id = "T1"
        /\ leads_update_policy(Token("a1"), l)
        /\ leads_update_check(Token("a1"), [l EXCEPT !.owner_id = "c2"])
        /\ ~leads_update_check(Token("a1"), [l EXCEPT !.tenant_id = "T2"])

TenantOf(uid) == (CHOOSE u \in users : u.id = uid).tenant_id

\* C9: an admin reads user, team and membership rows of their own tenant
\* only; a counselor reads only their own user row and their own memberships.
C9_DirectoryReads ==
    \A jwt \in WellFormed :
        /\ \A u \in users :
               users_select_policy(jwt, u) =>
                   /\ u.tenant_id = jwt.tenant_id
                   /\ jwt.role = "counselor" => u.id = jwt.uid
        /\ \A tm \in teams :
               teams_select_policy(jwt, tm) => tm.tenant_id = jwt.tenant_id
        /\ \A ut \in user_teams :
               user_teams_select_policy(jwt, ut) =>
                   /\ TenantOf(ut.user_id) = jwt.tenant_id
                   /\ jwt.role = "counselor" => ut.user_id = jwt.uid

\* C10: a token with a missing tenant, a missing user id or a role that is
\* neither admin nor counselor is denied every operation on every lead,
\* application and task.
C10_MalformedDenied ==
    \A jwt \in Malformed :
        /\ \A l \in leads :
               /\ ~leads_select_policy(jwt, l)
               /\ ~leads_insert_policy(jwt, l)
               /\ ~(leads_update_policy(jwt, l) /\ leads_update_check(jwt, l))
               /\ ~leads_delete_policy(jwt, l)
        /\ \A a \in applications :
               /\ ~applications_select_policy(jwt, a)
               /\ ~applications_insert_policy(jwt, a)
               /\ ~applications_modify_policy(jwt, a)
               /\ ~applications_delete_policy(jwt, a)
        /\ \A t \in tasks :
               /\ ~tasks_select_policy(jwt, t)
               /\ ~tasks_insert_policy(jwt, t)
               /\ ~tasks_update_policy(jwt, t)
               /\ ~tasks_delete_policy(jwt, t)

AppIdBad(r) == r.application_id \in {NULL, "", JsonNumber}
TypeMissing(r) == r.task_type \in {NULL, ""}
TypeNotEnum(r) == r.task_type \notin {"call", "email", "review"}
DueMissing(r) == r.due_at \in {NULL, ""}
DueUnparsable(r) == \A n \in 0..(MaxTime + 1) : r.due_at # Iso(n)
DuePast(r, t) == \E n \in 0..t : r.due_at = Iso(n)

ErrAppId == "application_id is required and must be a valid UUID string"
ErrTypeMissing == "task_type is required"
ErrTypeEnum == "task_type must be one of: call, email, review"
ErrDueMissing == "due_at is required"
ErrDueFormat == "due_at must be a valid ISO 8601 timestamp (e.g., 2025-01-01T12:00:00Z)"
ErrDuePast == "due_at must be a future timestamp"
FieldErrors ==
    {ErrAppId, ErrTypeMissing, ErrTypeEnum, ErrDueMissing, ErrDueFormat, ErrDuePast}

\* The error of the first failing step of a list of <<fails, error>> steps.
FirstFailure(steps) ==
    IF \E i \in 1..Len(steps) : steps[i][1]
    THEN steps[CHOOSE i \in 1..Len(steps) :
                   steps[i][1] /\ \A j \in 1..(i - 1) : ~steps[j][1]][2]
    ELSE NULL

\* A step in which a POST request whose body parsed as a JSON object is
\* received.
BodyReceived ==
    /\ served' = served + 1
    /\ req'.method = "POST"
    /\ req'.body = "object"
    /\ resp'.error # "Invalid JSON in request body"

\* C11 (as stated): the reported error is that of the first failing step in
\* the order application_id, task_type present, task_type in the enum,
\* due_at present, due_at a valid timestamp, due_at in the future; the
\* status is 400.
C11_EnumBeforeDueAt ==
    [][BodyReceived =>
          LET err == FirstFailure(
                  << <<AppIdBad(req'), ErrAppId>>, <<TypeMissing(req'), ErrTypeMissing>>,
                     <<TypeNotEnum(req'), ErrTypeEnum>>, <<DueMissing(req'), ErrDueMissing>>,
                     <<DueUnparsable(req'), ErrDueFormat>>, <<DuePast(req', now), ErrDuePast>> >>)
          IN  err # NULL => (resp' = Response(400, FALSE, err, NULL) /\ pc' = "done")]_vars

\* C11 (amended): the reported error is that of the first failing step in
\* the order application_id, task_type present, due_at present, task_type
\* in the enum, due_at a valid timestamp, due_at in the future; the status
\* is 400.
C11_ValidationOrder ==
    [][BodyReceived =>
          LET err == FirstFailure(
                  << <<AppIdBad(req'), ErrAppId>>, <<TypeMissing(req'), ErrTypeMissing>>,
                     <<DueMissing(req'), ErrDueMissing>>, <<TypeNotEnum(req'), ErrTypeEnum>>,
                     <<DueUnparsable(req'), ErrDueFormat>>, <<DuePast(req', now), ErrDuePast>> >>)
          IN  err # NULL => (resp' = Response(400, FALSE, err, NULL) /\ pc' = "done")]_vars

\* A request with task_type "meeting" and no due_at was answered 400
\* "due_at is required".
C11_Witness ==
    /\ pc = "done"
    /\ req.task_type = "meeting" /\ req.due_at = NULL
    /\ resp = Response(400, FALSE, ErrDueMissing, NULL)

\* C12: an otherwise valid request on an existing application is answered
\* 400 "due_at must be a future timestamp" when due_at <= now at validation,
\* and for due_at > now its insert, whenever it is carried out by a working
\* store, adds the task and goes on to the 200 response, whatever time has
\* passed since validation.
C12_FutureDueAccepted ==
    [][/\ (BodyReceived /\ ~AppIdBad(req') /\ ~TypeMissing(req') /\ ~TypeNotEnum(req')
              /\ DuePast(req', now))
           => resp' = Response(400, FALSE, ErrDuePast, NULL)
       /\ (pc = "insert" /\ InsertTaskRow(FALSE)
              /\ \E a \in applications : a.id = req.application_id)
           => (pc' = "broadcast" /\ \E t \in tasks' : t.id = newTask'.id)]_vars

\* C13: a request answered 400 is answered in the step that receives it,
\* with no application looked up, no task inserted and nothing published;
\* a request naming no existing application and carrying a past due_at is
\* answered with the past-due error, not with not-found.
C13_ValidationBeforeStore ==
    [][/\ (served' = served + 1 /\ resp'.status = 400)
           => /\ pc' = "done"
              /\ applicationExists' = NoRow /\ newTask' = NoRow
              /\ tasks' = tasks /\ published' = published
       /\ (resp' # resp /\ resp'.status = 400) => served' = served + 1
       /\ (BodyReceived /\ ~AppIdBad(req') /\ ~TypeMissing(req') /\ ~TypeNotEnum(req')
              /\ DuePast(req', now)
              /\ \A a \in applications : a.id # req'.application_id)
           => resp' = Response(400, FALSE, ErrDuePast, NULL)]_vars

\* A request for the application A9, which does not exist, and a due_at
\* already past, answered 400 past-due with no lookup recorded.
C13_Witness ==
    /\ pc = "done"
    /\ req.application_id = ApplicationId(9)
    /\ \A a \in applications : a.id # req.application_id
    /\ resp = Response(400, FALSE, ErrDuePast, NULL)
    /\ applicationExists = NoRow /\ tasks = {} /\ published = {}

\* C14: a task row is added only by the insert step of a request whose
\* lookup has found the application named in the request; a lookup that
\* finds no row, or fails, ends the request with 404 "Application not found",
\* and while that is the response no task is added and nothing is published.
C14_LookupBeforeInsert ==
    [][/\ (\E t \in tasks' : t \notin tasks)
           => /\ pc = "insert"
              /\ applicationExists.id = req.application_id
              /\ applicationExists.id # NULL
       /\ (pc = "check" /\ pc' # "check"
              /\ ((\A a \in applications : a.id # req.application_id)
                      \/ VerifyApplicationExists(TRUE)))
           => /\ resp' = Response(404, FALSE, "Application not found", NULL)
              /\ pc' = "done"
              /\ applicationExists' = NoRow
       /\ (resp.status = 404 \/ resp'.status = 404)
           => (tasks' \subseteq tasks /\ published' = published /\ newTask' = NoRow)]_vars

\* A valid request for the application A9, which does not exist, answered
\* 404 with no task inserted and nothing published.
C14_Witness ==
    /\ pc = "done"
    /\ req.application_id = ApplicationId(9)
    /\ resp = Response(404, FALSE, "Application not found", NULL)
    /\ newTask = NoRow /\ tasks = {} /\ published = {}

\* C15: every task row the handler inserts has the tenant_id of the
\* application its lookup found, which is that of the application row it
\* refers to, and status "pending", whatever tenant_id or status the request
\* body carries.
C15_TenantInherited ==
    [][\A t \in tasks' :
           t \notin tasks =>
               /\ t.tenant_id = applicationExists.tenant_id
               /\ \A a \in applications : a.id = t.application_id => a.tenant_id = t.tenant_id
               /\ t.application_id = req.application_id
               /\ t.status = "pending"]_vars

\* A request for the T1 application A3 whose body carries tenant_id T2 and
\* status "completed": the inserted task is a pending T1 task.
C15_Witness ==
    \E t \in tasks :
        /\ t.id = newTask.id
        /\ req.application_id = ApplicationId(3)
        /\ req.tenant_id = "T2" /\ req.status = "completed"
        /\ t.tenant_id = "T1" /\ t.status = "pending"

\* C16: the notification step of a request whose insert succeeded always
\* ends the request with 200, success and the id of the inserted task,
\* whether or not the send or the clean-up of the channel throws; it leaves
\* the task table as it is, publishes nothing when the send throws, and no
\* other step of the handler publishes.
C16_NotificationAbsorbed ==
    [][/\ (pc = "broadcast" /\ pc' # "broadcast")
           => /\ resp' = Response(200, TRUE, NULL, newTask.id)
              /\ newTask.id # NULL
              /\ pc' = "done"
              /\ tasks' = tasks
       /\ (\E remove_throws \in BOOLEAN : EmitAndRespond(TRUE, remove_throws))
           => published' = published
       /\ published' # published
           => /\ pc = "broadcast"
              /\ \E m \in published' :
                     m.task_id = newTask.id /\ published' = published \cup {m}]_vars

\* A request answered 200 with its task id although nothing was published:
\* the send threw, and the inserted row is in the store.
C16_Witness ==
    /\ pc = "done"
    /\ resp = Response(200, TRUE, NULL, newTask.id)
    /\ published = {}
    /\ \E t \in tasks : t.id = newTask.id

\* C17: a response carries success and a task_id exactly when the request's
\* insert added that task's row; an insert that adds no row ends the request
\* with 500 "Failed to create task", no task_id and nothing published, and
\* nothing is published while that is the response.
C17_NoPartialState ==
    /\ [](/\ resp.task_id # NULL
              => (resp.success /\ resp.status = 200 /\ resp.task_id = newTask.id)
          /\ (pc = "done" /\ newTask # NoRow)
              => resp = Response(200, TRUE, NULL, newTask.id)
          /\ (resp.success /\ req.method = "POST") => resp.task_id # NULL)
    /\ [][/\ newTask' # newTask /\ newTask' # NoRow
               => \E t \in tasks' : t \notin tasks /\ t.id = newTask'.id
          /\ (pc = "insert" /\ pc' # "insert" /\ tasks' = tasks)
               => /\ resp' = Response(500, FALSE, "Failed to create task", NULL)
                  /\ pc' = "done"
                  /\ newTask' = NoRow
                  /\ published' = published
          /\ resp.status = 500 => published' = published]_vars

\* A request whose insert failed: answered 500 with the generic message and
\* no task_id, no row added, nothing published.
C17_Witness ==
    /\ pc = "done"
    /\ applicationExists # NoRow
    /\ resp = Response(500, FALSE, "Failed to create task", NULL)
    /\ newTask = NoRow /\ tasks = {} /\ published = {}

\* ---------------------------------------------------------------------
\* The dashboard's hook
\* ---------------------------------------------------------------------
\* C18: every mark-complete update the store carries out on a task the
\* session may update succeeds, whether or not the task is already
\* completed, and leaves the task completed with no field other than status
\* and updated_at changed; a completed task stays completed, whatever the
\* order of the attempts.
C18_MarkCompleteIdempotent ==
    [][/\ \A i \in 1..MaxMutations :
              (mutations[i].state = "pending" /\ mutationFn(i, FALSE))
              => \A t \in tasks :
                     (t.id = mutations[i].taskId /\ tasks_update_policy(session, t))
                     => /\ mutations'[i].state = "success"
                        /\ \E u \in tasks' :
                               /\ u.status = "completed"
                               /\ u = [t EXCEPT !.status = "completed",
                                                !.updated_at = u.updated_at]
                        /\ Cardinality(tasks') = Cardinality(tasks)
       /\ \A t \in tasks :
              t.status = "completed"
              => \E u \in tasks' : u.id = t.id /\ u.status = "completed"]_vars

\* Two attempts on the task K3 have both succeeded, the second one at a
\* later instant on the task already completed.
C18_Witness ==
    \E i, j \in 1..MaxMutations :
        /\ i # j
        /\ mutations[i].taskId = TaskId(3) /\ mutations[i].state = "success"
        /\ mutations[j].taskId = TaskId(3) /\ mutations[j].state = "success"
        /\ \E t \in tasks : t.id = TaskId(3) /\ t.status = "completed" /\ t.updated_at > 0

\* No mutation and no fetch is in flight, and the query has data.
AllSettled ==
    /\ \A i \in 1..MaxMutations : mutations[i] = NoMutation
    /\ fetch = NoFetch
    /\ cache # undefined

\* C20 (rollback): the rollback of a failed mutation puts back into the
\* cached list no task, other than its own, that is completed in the store.
C20_RollbackKeepsCompleted ==
    [][\A i \in 1..MaxMutations :
           (mutations[i].state = "error" /\ onError(i))
           => \A id \in Ids(cache') \ Ids(cache) :
                  id # mutations[i].taskId
                  => \A t \in tasks : t.id = id => t.status # "completed"]_vars

\* C20 (convergence): once every mutation has settled and the refetch has
\* completed, the cached list is the session's non-completed tasks due today.
C20_SettledCacheIsServer == AllSettled => cache = TodayTasks(session)

\* C20: optimistic completion never shows, through another mutation's
\* rollback, a task that is completed in the store, and the cached list
\* converges to the store's non-completed tasks due today.
C20_OptimisticCompletion ==
    /\ []C20_SettledCacheIsServer
    /\ C20_RollbackKeepsCompleted

====
